---- MODULE Spec2Model ----
(***************************************************************************)
(* A model of tronbot (src/src/main.rs): the Game struct, its methods, the *)
(* beam heuristic, the canary thread and the read loop of main.            *)
(*                                                                         *)
(* Rust vectors are modelled as functions over 0..len-1, Option<T> as a    *)
(* sequence of length 0 (None) or 1 (Some).  A protocol line is a record   *)
(* whose field `type' is msg_args[0] and whose other fields are the parsed *)
(* arguments.                                                              *)
(***************************************************************************)
EXTENDS Integers, Sequences, FiniteSets, TLC

\* ---------------------------------------------------------------- bounds
\* largest width / height announced by a `game' line
MaxDim == 2
\* largest player id on the wire
MaxId == 1
\* number of reads (calls of Game::receive) after which the model stops reading;
\* it caps empty_msgs too, which counts some of them
MaxMsgs == 3
\* largest extent of the square grids the beam specification starts from
MaxExtent == 3
\* largest number of claimed cells in those grids
MaxClaims == 3

\* ------------------------------------------------------------- constants
USERNAME == "MASTER CONTROL PROGRAM"

None == <<>>
Some(x) == <<x>>

Direction == {"WPos", "WNeg", "HPos", "HNeg"}
\* the array the tick handler iterates over
Dirs == <<"WPos", "WNeg", "HPos", "HNeg">>

PlayerIDs == 0..MaxId
Dims == 0..MaxDim
Coords == 0..(MaxDim - 1)
Names == {USERNAME, "Flynn", "Tron"}

\* Cell::new
NewCell == [claimed_by |-> None]
\* Cell::claimed
claimed(cell) == cell.claimed_by # None

VARIABLES
    username,    \* Game.username
    read_buf,    \* Game.read_buf: the line last read (a record), or EmptyBuf
    msg_args,    \* main's msg_args and the arguments parsed from them
    me,          \* Game.me
    others,      \* Game.others
    world,       \* Game.world, [width_offset][height_offset]
    pos,         \* Game.pos
    empty_msgs,  \* main's counter of empty reads
    pc,          \* main thread: "check", "recv", "exited", "panicked"
    out,         \* commands written to the server since the last read
    canary_pc,   \* canary thread: "stdin", "send", "done"
    chan,        \* the mpsc channel: signals sent and not yet received
    stream,      \* the inbound TCP stream: "open" or "eof"
    nread        \* calls of Game::receive so far

vars == <<username, read_buf, msg_args, me, others, world, pos, empty_msgs, pc, out,
          canary_pc, chan, stream, nread>>

gameVars == <<me, others, world, pos>>
canaryVars == <<canary_pc, chan>>

\* read_buf after clear(), and after a read at the end of the stream
EmptyBuf == [type |-> ""]

\* no line has been split yet in this iteration of the loop
NoArgs == [type |-> ""]

\* Vec::len of a vector modelled as a function over 0..len-1
VecLen(v) == Cardinality(DOMAIN v)

\* vec![vec![Cell::new(); height]; width]
NewWorld(width, height) ==
    [w \in 0..(width - 1) |-> [h \in 0..(height - 1) |-> NewCell]]

\* ------------------------------------------------------------ Game methods

\* reset without others.clear()
reset_keeps_others(width, height, id) ==
    /\ me' = Some(id)
    /\ others' = others
    /\ world' = NewWorld(width, height)

\* Game::reset (its read_buf.clear() is in Receives, which sets read_buf')
reset(width, height, id) ==
    /\ me' = Some(id)
    /\ others' = <<>>
    /\ world' = NewWorld(width, height)

\* the padding loop of add_player: push None until len >= min_len
RECURSIVE PadTo(_, _)
PadTo(v, min_len) ==
    IF VecLen(v) < min_len
    THEN PadTo([i \in 0..VecLen(v) |-> IF i < VecLen(v) THEN v[i] ELSE None], min_len)
    ELSE v

\* add_player storing the name whether or not the slot is taken
add_player_overwrites(id, name) ==
    IF name = username
    THEN /\ me' = Some(id)
         /\ UNCHANGED others
    ELSE /\ others' = [PadTo(others, id + 1) EXCEPT ![id] = Some(name)]
         /\ UNCHANGED me

\* add_player taking every registered id for our own
add_player_sets_me(id, name) ==
    /\ me' = Some(id)
    /\ IF name = username
       THEN UNCHANGED others
       ELSE LET padded == PadTo(others, id + 1)
            IN  others' = IF padded[id] = None
                          THEN [padded EXCEPT ![id] = Some(name)]
                          ELSE padded

\* Game::add_player
add_player(id, name) ==
    IF name = username
    THEN /\ me' = Some(id)
         /\ UNCHANGED others
    ELSE /\ LET padded == PadTo(others, id + 1)
            IN  others' = IF padded[id] = None
                          THEN [padded EXCEPT ![id] = Some(name)]
                          ELSE padded
         /\ UNCHANGED me

\* self.others[id] = None panics when id is not an index of others
remove_player_panics(id) == id \notin DOMAIN others

\* Game::remove_player, when the index is in range
remove_player(id) ==
    /\ others' = [others EXCEPT ![id] = None]
    /\ world' = [w \in DOMAIN world |->
                   [h \in DOMAIN world[w] |->
                      IF world[w][h].claimed_by = Some(id)
                      THEN [claimed_by |-> None]
                      ELSE world[w][h]]]

\* get_player_name reading the slot after player_id
get_player_name_next_slot(player_id) ==
    IF player_id + 1 \in DOMAIN others THEN others[player_id + 1] ELSE None

\* Game::get_player_name
get_player_name(player_id) ==
    IF player_id \in DOMAIN others THEN others[player_id] ELSE None

\* indexing self.world[w][h] is in bounds
InBounds(w, h) == w \in DOMAIN world /\ h \in DOMAIN world[w]

\* occupy sparing a cell that is already claimed
occupy_if_free(player_id, w, h) ==
    world' = IF claimed(world[w][h])
             THEN world
             ELSE [world EXCEPT ![w][h] = [claimed_by |-> Some(player_id)]]

\* Game::occupy, when the index is in range
occupy(player_id, w, h) ==
    world' = [world EXCEPT ![w][h] = [claimed_by |-> Some(player_id)]]

\* ------------------------------------------------------------------- beam
PANIC == -1

\* the cell read at one offset when the negative directions add the offset too
BeamCell_neg_adds(dir, expanse, offset) ==
    CASE dir \in {"WPos", "WNeg"} -> <<(pos[1] + offset) % expanse, pos[2]>>
      [] dir \in {"HPos", "HNeg"} -> <<pos[1], (pos[2] + offset) % expanse>>

\* the cell a beam reads at one offset
BeamCell(dir, expanse, offset) ==
    CASE dir = "WPos" -> <<(pos[1] + offset) % expanse, pos[2]>>
      [] dir = "WNeg" -> <<(pos[1] + expanse - offset) % expanse, pos[2]>>
      [] dir = "HPos" -> <<pos[1], (pos[2] + offset) % expanse>>
      [] dir = "HNeg" -> <<pos[1], (pos[2] + expanse - offset) % expanse>>

\* the loop running over 0..expanse
RECURSIVE BeamLoop_inclusive(_, _, _, _)
BeamLoop_inclusive(dir, expanse, offset, beam_len) ==
    IF offset >= expanse
    THEN beam_len
    ELSE LET c == BeamCell(dir, expanse, offset)
         IN  IF ~InBounds(c[1], c[2])
             THEN PANIC
             ELSE BeamLoop_inclusive(dir, expanse, offset + 1,
                                     IF ~claimed(world[c[1]][c[2]]) THEN beam_len + 1 ELSE beam_len)

\* the loop `for offset in 0..expanse-1' from `offset' on
RECURSIVE BeamLoop(_, _, _, _)
BeamLoop(dir, expanse, offset, beam_len) ==
    IF offset >= expanse - 1
    THEN beam_len
    ELSE LET c == BeamCell(dir, expanse, offset)
         IN  IF ~InBounds(c[1], c[2])
             THEN PANIC
             ELSE BeamLoop(dir, expanse, offset + 1,
                           IF ~claimed(world[c[1]][c[2]]) THEN beam_len + 1 ELSE beam_len)

\* fn beam: expanse - 1 underflows on an empty world (a panic in a debug build;
\* a release build wraps and then panics on `% 0' at offset 0)
beam(dir) ==
    LET expanse == VecLen(world)
    IN  IF expanse = 0 THEN PANIC ELSE BeamLoop(dir, expanse, 0, 0)

\* the loop of the tick handler updating the best candidate on `>='
RECURSIVE SelectLoop_last_wins(_, _, _)
SelectLoop_last_wins(i, best_dir, longest_beam) ==
    IF i > Len(Dirs)
    THEN <<best_dir, longest_beam>>
    ELSE LET b == beam(Dirs[i])
         IN  IF b = PANIC THEN <<"panic", PANIC>>
             ELSE IF b >= longest_beam
                  THEN SelectLoop_last_wins(i + 1, Dirs[i], b)
                  ELSE SelectLoop_last_wins(i + 1, best_dir, longest_beam)

\* the loop of the tick handler over Dirs from index i on:
\* <<best_dir, longest_beam>>, or PANIC if a beam panics
RECURSIVE SelectLoop(_, _, _)
SelectLoop(i, best_dir, longest_beam) ==
    IF i > Len(Dirs)
    THEN <<best_dir, longest_beam>>
    ELSE LET b == beam(Dirs[i])
         IN  IF b = PANIC THEN <<"panic", PANIC>>
             ELSE IF b > longest_beam
                  THEN SelectLoop(i + 1, Dirs[i], b)
                  ELSE SelectLoop(i + 1, best_dir, longest_beam)

select_direction == SelectLoop(1, "WPos", 0)

direction_name(dir) ==
    CASE dir = "WPos" -> "right"
      [] dir = "WNeg" -> "left"
      [] dir = "HPos" -> "up"
      [] dir = "HNeg" -> "down"

\* ------------------------------------------------------------ main: set-up
Init ==
    /\ username = USERNAME
    /\ read_buf = EmptyBuf
    /\ msg_args = NoArgs
    /\ me = None
    /\ others = <<>>
    /\ world = <<>>
    /\ pos = <<0, 0>>
    /\ empty_msgs = 0
    /\ pc = "check"
    /\ out = <<[cmd |-> "join", arg |-> USERNAME]>>
    /\ canary_pc = "stdin"
    /\ chan = 0
    /\ stream = "open"
    /\ nread = 0

\* ----------------------------------------------------------- canary thread
\* stdin().read_line returns (a line, end of input or an error: all ignored)
CanaryInput ==
    /\ canary_pc = "stdin"
    /\ canary_pc' = "send"
    /\ UNCHANGED <<username, read_buf, msg_args, gameVars, empty_msgs, pc, out, chan, stream, nread>>

\* the closure returning, and dropping canary_tx, without having sent
CanarySend_drops_unsent ==
    /\ canary_pc = "send"
    /\ canary_pc' = "done"
    /\ UNCHANGED <<username, read_buf, msg_args, gameVars, empty_msgs, pc, out, chan, stream, nread>>

\* canary_tx.send(()), after which the closure returns and drops canary_tx
CanarySend ==
    /\ canary_pc = "send"
    /\ canary_pc' = "done"
    /\ chan' = IF pc \in {"exited", "panicked"} THEN chan ELSE chan + 1
    /\ UNCHANGED <<username, read_buf, msg_args, gameVars, empty_msgs, pc, out, stream, nread>>

\* ---------------------------------------------------------- main: read loop
\* the check at the top of the loop never receiving the signal
CheckCanary_ignores_signal ==
    /\ pc = "check"
    /\ pc' = IF canary_pc = "done" /\ chan = 0 THEN "panicked" ELSE "recv"
    /\ UNCHANGED <<username, read_buf, msg_args, gameVars, empty_msgs, out, canaryVars, stream, nread>>

\* canary_rx.try_recv() at the top of the loop
CheckCanary ==
    /\ pc = "check"
    /\ IF chan > 0
       THEN /\ chan' = chan - 1
            /\ pc' = "exited"
       ELSE /\ UNCHANGED chan
            /\ pc' = IF canary_pc = "done" THEN "panicked" ELSE "recv"
    /\ UNCHANGED <<username, read_buf, msg_args, gameVars, empty_msgs, out, canary_pc, stream, nread>>

\* Game::receive delivers a line of the server
Receives(msg) ==
    /\ pc = "recv"
    /\ stream = "open"
    /\ nread < MaxMsgs
    /\ nread' = nread + 1
    /\ msg_args' = msg
    /\ read_buf' = IF msg.type = "game" THEN EmptyBuf ELSE msg
    /\ UNCHANGED <<username, empty_msgs, canaryVars, stream>>

\* read_line returns Ok(0): the stream is at its end; the loop counts and continues
RecvEof ==
    /\ pc = "recv"
    /\ nread < MaxMsgs
    /\ nread' = nread + 1
    /\ stream' = "eof"
    /\ read_buf' = EmptyBuf
    /\ msg_args' = NoArgs
    /\ empty_msgs' = empty_msgs + 1
    /\ pc' = "check"
    /\ out' = <<>>
    /\ UNCHANGED <<username, gameVars, canaryVars>>

\* read_line fails: expect("Cannot read line from server") panics
RecvFail ==
    /\ pc = "recv"
    /\ stream = "open"
    /\ nread < MaxMsgs
    /\ nread' = nread + 1
    /\ read_buf' = EmptyBuf
    /\ msg_args' = NoArgs
    /\ pc' = "panicked"
    /\ out' = <<>>
    /\ UNCHANGED <<username, gameVars, empty_msgs, canaryVars, stream>>

\* a line whose argument is missing or does not parse: msg_args[i] or parse_msg_arg panics
Malformed == [type : {"motd", "game", "player", "pos", "chat", "die", "lose"}, bad : {TRUE}]

OnMalformed(msg) ==
    /\ Receives(msg)
    /\ pc' = "panicked"
    /\ out' = <<>>
    /\ UNCHANGED gameVars

\* "error" => return
OnError ==
    /\ Receives([type |-> "error"])
    /\ pc' = "exited"
    /\ out' = <<>>
    /\ UNCHANGED gameVars

\* "motd", "win", "lose" and every other message type: print only
NopTypes == {"motd", "win", "lose", "other"}

OnNop(t) ==
    /\ Receives([type |-> t])
    /\ pc' = "check"
    /\ out' = <<>>
    /\ UNCHANGED gameVars

\* "game": reset, then say(...); send panics when the write fails
OnGame(width, height, id, sent) ==
    /\ Receives([type |-> "game", width |-> width, height |-> height, id |-> id])
    /\ reset(width, height, id)
    /\ UNCHANGED pos
    /\ IF sent
       THEN /\ out' = <<[cmd |-> "chat", arg |-> "You shouldn't have come back, Flynn."]>>
            /\ pc' = "check"
       ELSE /\ out' = <<>>
            /\ pc' = "panicked"

\* "tick": beam into all four directions and move into the best one
OnTick(sent) ==
    /\ Receives([type |-> "tick"])
    /\ UNCHANGED gameVars
    /\ LET sel == select_direction
       IN  IF sel[2] = PANIC \/ ~sent
           THEN /\ out' = <<>>
                /\ pc' = "panicked"
           ELSE /\ out' = <<[cmd |-> "move", arg |-> direction_name(sel[1])]>>
                /\ pc' = "check"

\* "player"
OnPlayer(id, name) ==
    /\ Receives([type |-> "player", id |-> id, name |-> name])
    /\ add_player(id, name)
    /\ UNCHANGED <<world, pos>>
    /\ pc' = "check"
    /\ out' = <<>>

\* the "pos" handler updating our position for every player's claim
OnPos_moves_always(player_id, x, y) ==
    /\ Receives([type |-> "pos", id |-> player_id, x |-> x, y |-> y])
    /\ out' = <<>>
    /\ UNCHANGED <<me, others>>
    /\ IF InBounds(x, y)
       THEN /\ occupy(player_id, x, y)
            /\ pos' = <<x, y>>
            /\ pc' = "check"
       ELSE /\ UNCHANGED <<world, pos>>
            /\ pc' = "panicked"

\* "pos": occupy, then update our position if the claim is ours
OnPos(player_id, x, y) ==
    /\ Receives([type |-> "pos", id |-> player_id, x |-> x, y |-> y])
    /\ out' = <<>>
    /\ UNCHANGED <<me, others>>
    /\ IF InBounds(x, y)
       THEN /\ occupy(player_id, x, y)
            /\ pos' = IF me = Some(player_id) THEN <<x, y>> ELSE pos
            /\ pc' = "check"
       ELSE /\ UNCHANGED <<world, pos>>
            /\ pc' = "panicked"

\* "chat": look the name up and print
OnChat(id) ==
    /\ Receives([type |-> "chat", id |-> id])
    /\ pc' = "check"
    /\ out' = <<>>
    /\ UNCHANGED gameVars

\* "die": look the name up, then remove_player
OnDie(id) ==
    /\ Receives([type |-> "die", id |-> id])
    /\ out' = <<>>
    /\ UNCHANGED <<me, pos>>
    /\ IF remove_player_panics(id)
       THEN /\ UNCHANGED <<others, world>>
            /\ pc' = "panicked"
       ELSE /\ remove_player(id)
            /\ pc' = "check"

Game == \E width \in Dims, height \in Dims, id \in PlayerIDs, sent \in BOOLEAN :
            OnGame(width, height, id, sent)
Tick == \E sent \in BOOLEAN : OnTick(sent)
Player == \E id \in PlayerIDs, name \in Names : OnPlayer(id, name)
Pos == \E player_id \in PlayerIDs, x \in Coords, y \in Coords : OnPos(player_id, x, y)
Chat == \E id \in PlayerIDs : OnChat(id)
Die == \E id \in PlayerIDs : OnDie(id)
Nop == \E t \in NopTypes : OnNop(t)
Bad == \E msg \in Malformed : OnMalformed(msg)

Next ==
    \/ CheckCanary
    \/ RecvEof
    \/ RecvFail
    \/ Bad
    \/ OnError
    \/ Nop
    \/ Game
    \/ Tick
    \/ Player
    \/ Pos
    \/ Chat
    \/ Die

\* the read loop while the user has not hit enter
Spec == Init /\ [][Next]_vars

\* one iteration of the read loop on one line of each kind: the loop-top check
\* and the channel never look at the fields of a line
MainStep ==
    \/ CheckCanary
    \/ RecvEof
    \/ RecvFail
    \/ OnMalformed([type |-> "pos", bad |-> TRUE])
    \/ OnError
    \/ OnNop("motd")
    \/ \E sent \in BOOLEAN : OnGame(1, 1, 0, sent)
    \/ Tick
    \/ OnPlayer(0, "Flynn")
    \/ OnPos(0, 0, 0)
    \/ OnChat(0)
    \/ OnDie(0)

\* the read loop together with the canary thread
NextCanary == MainStep \/ CanaryInput \/ CanarySend
SpecCanary == Init /\ [][NextCanary]_vars

\* the main thread keeps running: the check at the top of the loop is made, and
\* a read returns as long as the server has something to deliver (MaxMsgs reads)
FairCanary == SpecCanary /\ WF_vars(MainStep)

\* ------------------------------------------------- the beam specification
\* A tick arrives in a state the read loop can have reached: a square world of
\* extent E in which player 0 (ourselves) holds at most MaxClaims cells, and a
\* position left by an own claim of this epoch or of an earlier, larger one.
Extents == 0..MaxExtent
BeamCoords == 0..(MaxExtent - 1)

SquareWorld(E, S) ==
    [w \in 0..(E - 1) |->
        [h \in 0..(E - 1) |->
            IF <<w, h>> \in S THEN [claimed_by |-> Some(0)] ELSE NewCell]]

InitBeam ==
    /\ username = USERNAME
    /\ read_buf = [type |-> "chat", id |-> 0]
    /\ msg_args = [type |-> "chat", id |-> 0]
    /\ me = Some(0)
    /\ others = <<>>
    /\ \E E \in Extents :
          \E S \in SUBSET ((0..(E - 1)) \X (0..(E - 1))) :
              /\ Cardinality(S) <= MaxClaims
              /\ world = SquareWorld(E, S)
    /\ pos \in BeamCoords \X BeamCoords
    /\ empty_msgs = 0
    /\ pc = "recv"
    /\ out = <<>>
    /\ canary_pc = "stdin"
    /\ chan = 0
    /\ stream = "open"
    /\ nread = MaxMsgs - 1

NextBeam ==
    \/ CheckCanary
    \/ Tick

SpecBeam == InitBeam /\ [][NextBeam]_vars

\* ------------------------------------------------------------ properties
\* the cells of the grid, and the claimant a cell reports
Cells == UNION {{<<w, h>> : h \in DOMAIN world[w]} : w \in DOMAIN world}
CellsNext == UNION {{<<w, h>> : h \in DOMAIN world'[w]} : w \in DOMAIN world'}
Claimant(c) == world[c[1]][c[2]].claimed_by
ClaimantNext(c) == world'[c[1]][c[2]].claimed_by

\* a step of the read loop that read a line of the given type, parsed its
\* arguments and ran its handler
HandledType(t) ==
    /\ pc = "recv"
    /\ nread' = nread + 1
    /\ msg_args'.type = t
    /\ "bad" \notin DOMAIN msg_args'

\* C1: a `pos' line for a cell inside the grid makes that cell report the line's
\* player, whoever held it before, and leaves every other cell as it was; and
\* no line other than `pos', `game' and `die' changes the grid at all.
C1_ClaimOverwrites ==
    [][/\ (HandledType("pos") /\ <<msg_args'.x, msg_args'.y>> \in Cells) =>
            /\ pc' = "check"
            /\ CellsNext = Cells
            /\ ClaimantNext(<<msg_args'.x, msg_args'.y>>) = Some(msg_args'.id)
            /\ \A c \in Cells :
                  c # <<msg_args'.x, msg_args'.y>> => ClaimantNext(c) = Claimant(c)
       /\ world' # world =>
            HandledType("pos") \/ HandledType("game") \/ HandledType("die")]_vars

\* C1 witness: a `pos' line was handled, its cell reports its player, and
\* another cell still reports another player
C1_Witness ==
    /\ pc = "check"
    /\ msg_args.type = "pos"
    /\ <<msg_args.x, msg_args.y>> \in Cells
    /\ Claimant(<<msg_args.x, msg_args.y>>) = Some(msg_args.id)
    /\ \E c \in Cells : Claimant(c) # None /\ Claimant(c) # Some(msg_args.id)

\* C2: a `die' line for id leaves no cell reporting id, leaves the registry
\* without a name for id, and leaves every cell of another player and every
\* other registry slot as it was.
C2_RemovePlayerReleases ==
    [][HandledType("die") =>
          /\ \A c \in CellsNext : ClaimantNext(c) # Some(msg_args'.id)
          /\ msg_args'.id \in DOMAIN others' => others'[msg_args'.id] = None
          /\ CellsNext = Cells
          /\ \A c \in Cells :
                Claimant(c) # Some(msg_args'.id) => ClaimantNext(c) = Claimant(c)
          /\ DOMAIN others' = DOMAIN others
          /\ \A i \in DOMAIN others : i # msg_args'.id => others'[i] = others[i]]_vars

\* C3: a `die' line for an id that has no name in the registry and owns no cell
\* does not end the client, and changes neither the grid nor the registry.
C3_DieUnknownHarmless ==
    [][(/\ HandledType("die")
        /\ get_player_name(msg_args'.id) = None
        /\ \A c \in Cells : Claimant(c) # Some(msg_args'.id)) =>
          /\ pc' = "check"
          /\ world' = world
          /\ \A i \in DOMAIN others : i \in DOMAIN others' /\ others'[i] = others[i]]_vars

\* C4: a `player' line never changes a name the registry already stores, never
\* changes or drops the slot of another id, and, when its name is not our own,
\* extends the registry up to its id with empty slots and leaves a name in the
\* slot of its id: the line's name if the id had none.
C4_FirstWriterWins ==
    [][HandledType("player") =>
          /\ \A i \in DOMAIN others :
                /\ i \in DOMAIN others'
                /\ (i # msg_args'.id \/ others[i] # None) => others'[i] = others[i]
          /\ msg_args'.name # username =>
                /\ DOMAIN others' = DOMAIN others \cup 0..msg_args'.id
                /\ \A i \in DOMAIN others' \ DOMAIN others :
                      i # msg_args'.id => others'[i] = None
                /\ others'[msg_args'.id] # None
                /\ get_player_name(msg_args'.id) = None =>
                      others'[msg_args'.id] = Some(msg_args'.name)]_vars

\* C4 witness: a `player' line with another name was handled for an id that
\* keeps the name it had
C4_Witness ==
    /\ pc = "check"
    /\ msg_args.type = "player"
    /\ msg_args.name # username
    /\ msg_args.id \in DOMAIN others
    /\ others[msg_args.id] # None
    /\ others[msg_args.id] # Some(msg_args.name)

\* C5: a `game' line with width w, height h and id, in whatever state it arrives,
\* leaves a grid of w columns of h unclaimed cells each, an empty registry and
\* self identity id.
C5_StartEpochClean ==
    [][HandledType("game") =>
          /\ DOMAIN world' = 0..(msg_args'.width - 1)
          /\ \A x \in DOMAIN world' : DOMAIN world'[x] = 0..(msg_args'.height - 1)
          /\ \A c \in CellsNext : ClaimantNext(c) = None
          /\ DOMAIN others' = {}
          /\ me' = Some(msg_args'.id)]_vars

\* C5 witness: a `game' line was handled after at least two earlier lines, its
\* chat line is out, and the grid has cells, all unclaimed
C5_Witness ==
    /\ pc = "check"
    /\ nread >= 3
    /\ msg_args.type = "game"
    /\ read_buf = EmptyBuf
    /\ out = <<[cmd |-> "chat", arg |-> "You shouldn't have come back, Flynn."]>>
    /\ Cells # {}
    /\ \A c \in Cells : Claimant(c) = None
    /\ others = <<>>
    /\ me = Some(msg_args.id)

\* C6: after a `game' line the grid, the registry, self identity and self
\* position are those the same line gives from the initial state: they depend
\* on nothing that happened before.
C6_NoStateSurvivesEpoch ==
    [][(HandledType("game") /\ pc' = "check") =>
          /\ world' = NewWorld(msg_args'.width, msg_args'.height)
          /\ others' = <<>>
          /\ me' = Some(msg_args'.id)
          /\ pos' = <<0, 0>>]_vars

\* C7 as stated: once self identity is set, only a `game' line changes it.
C7_MeFixedInEpoch ==
    [][(me # None /\ me' # me) => HandledType("game")]_vars

\* C7 as amended: self identity changes only by a `game' line or by a `player'
\* line that carries our own username, which sets it to that line's id.
C7_MeChangesOnlyByGameOrOwnName ==
    [][me' # me =>
          \/ HandledType("game")
          \/ /\ HandledType("player")
             /\ msg_args'.name = username
             /\ me' = Some(msg_args'.id)]_vars

\* C7 witness: within an epoch a `player' line with our username was handled
\* and self identity is its id
C7_Witness ==
    /\ pc = "check"
    /\ nread >= 2
    /\ Cells # {}
    /\ msg_args.type = "player"
    /\ msg_args.name = username
    /\ me = Some(msg_args.id)

\* C8: a `pos' line for a cell inside the grid sets self position to that cell
\* when its player is self identity and leaves it alone otherwise, and no other
\* line changes self position.
C8_PosFollowsOwnClaims ==
    [][/\ (HandledType("pos") /\ <<msg_args'.x, msg_args'.y>> \in Cells) =>
            pos' = IF me = Some(msg_args'.id)
                   THEN <<msg_args'.x, msg_args'.y>>
                   ELSE pos
       /\ pos' # pos => HandledType("pos")]_vars

\* C8 witness: an own `pos' line was handled and self position is its cell,
\* away from the initial position
C8_Witness ==
    /\ pc = "check"
    /\ msg_args.type = "pos"
    /\ me = Some(msg_args.id)
    /\ pos = <<msg_args.x, msg_args.y>>
    /\ pos # <<0, 0>>

\* a square grid of extent E with self position inside it
SquareGrid(E) ==
    /\ DOMAIN world = 0..(E - 1)
    /\ \A w \in DOMAIN world : DOMAIN world[w] = 0..(E - 1)
PosInGrid == <<pos[1], pos[2]>> \in Cells

\* the cell at toroidal offset k from self position in a direction
RayCell(dir, E, k) ==
    CASE dir = "WPos" -> <<(pos[1] + k) % E, pos[2]>>
      [] dir = "WNeg" -> <<(pos[1] - k) % E, pos[2]>>
      [] dir = "HPos" -> <<pos[1], (pos[2] + k) % E>>
      [] dir = "HNeg" -> <<pos[1], (pos[2] - k) % E>>

\* C9: on a square grid of extent E with self position inside, each beam is the
\* number of unclaimed cells among those at toroidal offsets 1..E-1.
C9_BeamCountsOffsets1ToEminus1 ==
    \A E \in 1..(MaxDim + MaxExtent) : \A dir \in Direction :
        (SquareGrid(E) /\ PosInGrid) =>
            beam(dir) = Cardinality({k \in 1..(E - 1) : Claimant(RayCell(dir, E, k)) = None})

\* C10: on a square grid of extent E with no claimed cell and self position
\* inside, each of the four beams is E - 1.
C10_OpenGridBeam ==
    \A E \in 1..(MaxDim + MaxExtent) : \A dir \in Direction :
        (SquareGrid(E) /\ PosInGrid /\ \A c \in Cells : Claimant(c) = None) =>
            beam(dir) = E - 1

\* C10 witness: a tick was answered on an open grid of extent 3 or more
C10_Witness ==
    /\ pc = "check"
    /\ msg_args.type = "tick"
    /\ \E E \in 3..(MaxDim + MaxExtent) : SquareGrid(E)
    /\ PosInGrid
    /\ \A c \in Cells : Claimant(c) = None
    /\ out = <<[cmd |-> "move", arg |-> "right"]>>

\* the enumeration order of the directions and the move each one is sent as
EnumOrder == <<"WPos", "WNeg", "HPos", "HNeg">>
MoveOf == <<"right", "left", "up", "down">>

\* a tick was read and answered, and the loop is back at its top
TickAnswered == pc = "check" /\ msg_args.type = "tick"

\* C11: the move sent for a tick is that of the first direction, in the order
\* right, left, up, down, whose beam from self position is the greatest: every
\* earlier direction has a strictly shorter beam, no direction a longer one.
C11_FirstGreatestBeamWins ==
    TickAnswered =>
        \E i \in 1..4 :
            /\ out = <<[cmd |-> "move", arg |-> MoveOf[i]]>>
            /\ \A j \in 1..4 : beam(EnumOrder[j]) <= beam(EnumOrder[i])
            /\ \A j \in 1..(i - 1) : beam(EnumOrder[j]) < beam(EnumOrder[i])

\* C11 witness: a tick was answered with `left' where left and up tie for the
\* greatest beam and right is shorter
C11_Witness ==
    /\ TickAnswered
    /\ beam("WPos") < beam("WNeg")
    /\ beam("WNeg") = beam("HPos")
    /\ beam("HNeg") <= beam("WNeg")
    /\ out = <<[cmd |-> "move", arg |-> "left"]>>

\* C12: a tick on a grid of extent 0 or 1 finds every beam 0, does not fail in
\* any beam, and its answer, once sent, is `right'.
C12_DegenerateGridTick ==
    [][(HandledType("tick") /\ VecLen(world) <= 1) =>
          /\ \A dir \in Direction : beam(dir) = 0
          /\ pc' = "check" => out' = <<[cmd |-> "move", arg |-> "right"]>>]_vars

\* the client has returned from main or panicked
Terminated == pc \in {"exited", "panicked"}

\* a read of the inbound stream that yields no line: end of stream or failure
StreamLost == pc = "recv" /\ nread' = nread + 1 /\ msg_args' = NoArgs

\* C13: an `error' event and a read that yields end-of-stream or fails each
\* take the client to Terminated, and once Terminated it takes no step: no
\* read, no change of the world model, no command.
C13_TerminatedOnErrorOrStreamLoss ==
    [][/\ HandledType("error") => Terminated'
       /\ StreamLost => Terminated'
       /\ ~Terminated]_vars

\* the movement command names
MoveNames == {"up", "down", "left", "right"}

\* the message types that are answered with no command
SilentTypes == {"motd", "player", "pos", "chat", "die", "lose", "win", "other"}

\* C14: a read is followed by at most one command before the next read; a
\* tick in an epoch (own id known, grid of at least one cell) gets as far as
\* sending and what it sends, unless the write fails, is exactly one move
\* with a direction name; the silent types send nothing.
C14_OneCommandPerRead ==
    [][/\ (pc = "recv" /\ nread' = nread + 1) => Len(out') <= 1
       /\ (HandledType("tick") /\ me # None /\ VecLen(world) >= 1 /\ VecLen(world[0]) >= 1) =>
              /\ select_direction[2] # PANIC
              /\ pc' = "check" =>
                     \E m \in MoveNames : out' = <<[cmd |-> "move", arg |-> m]>>
       /\ \A t \in SilentTypes : HandledType(t) => out' = <<>>]_vars

\* the canary's signal is in the channel
Signalled == chan > 0

\* the main thread is in a read that never returns: the server sends no more
ReadBlocked == pc = "recv" /\ nread = MaxMsgs

\* C15: the signal is taken out of the channel only by the check at the top of
\* the loop; while it is in the channel, the check at the top exits without a
\* read, a read in progress ends at the top of the loop or in termination, and
\* the signal stays until then (so at most one message is completed after the
\* send); and once signalled the main loop terminates unless its read never
\* returns.
C15_CancelledAtLoopTop ==
    /\ [][/\ chan' < chan => pc = "check" /\ pc' = "exited"
          /\ Signalled =>
                 /\ pc = "check" => pc' = "exited" /\ nread' = nread
                 /\ pc = "recv" => (pc' # "recv" /\ nread' = nread + 1)
                 /\ ~Terminated' => Signalled']_vars
    /\ Signalled ~> (Terminated \/ ReadBlocked)

\* C15 witness: the loop has exited on the signal after handling a message
C15_Witness ==
    /\ pc = "exited"
    /\ canary_pc = "done"
    /\ chan = 0
    /\ msg_args.type \in {"tick", "game", "player", "pos", "chat", "motd"}

\* C20: the check at the top of the loop never finds the channel empty with
\* its sender dropped: try_recv yields Empty or the signal, never Disconnected.
C20_NeverDisconnected ==
    pc = "check" => (chan > 0 \/ canary_pc # "done")

\* C20 witness: the sender is dropped and the check finds the signal it left
C20_Witness == pc = "check" /\ canary_pc = "done" /\ chan > 0

\* no `game' event has been handled yet: reset is the only place that sets me
\* apart from a `player' event with our own name
BeforeFirstGame == me = None

\* C16: a `player', `pos' or `die' event handled before the first `game' event
\* terminates the client and leaves the world model as it was.
C16_MutationBeforeGameFatal ==
    [][\A t \in {"player", "pos", "die"} :
          (BeforeFirstGame /\ HandledType(t)) =>
              (pc' = "panicked" /\ UNCHANGED gameVars)]_vars

\* the ids looked up: every id a line can carry and one beyond
LookupIDs == 0..(MaxId + 1)

\* C17: the lookup of any id, also one beyond the registry, yields a name or
\* the unknown sentinel (None); a `player' line with another name than ours
\* makes its id yield that name if it yielded unknown before and changes no
\* other lookup; a completed `die' makes its id yield unknown; a `game' makes
\* every id yield unknown; nothing else changes any lookup.
C17_LookupNameFollowsRegistry ==
    [][/\ \A id \in LookupIDs :
              get_player_name(id)' \in {None} \cup {Some(n) : n \in Names}
       /\ HandledType("player") =>
              \A id \in LookupIDs :
                  get_player_name(id)' =
                      IF /\ id = msg_args'.id
                         /\ msg_args'.name # username
                         /\ get_player_name(id) = None
                      THEN Some(msg_args'.name)
                      ELSE get_player_name(id)
       /\ (HandledType("die") /\ pc' = "check") =>
              \A id \in LookupIDs :
                  get_player_name(id)' =
                      IF id = msg_args'.id THEN None ELSE get_player_name(id)
       /\ HandledType("game") =>
              \A id \in LookupIDs : get_player_name(id)' = None
       /\ ~(\/ HandledType("player")
            \/ HandledType("die") /\ pc' = "check"
            \/ HandledType("game")) =>
              \A id \in LookupIDs : get_player_name(id)' = get_player_name(id)]_vars

\* C17 witness: a `chat' line was answered for an id whose lookup yields the
\* name it was registered with, while the id beyond the registry yields unknown
C17_Witness ==
    /\ pc = "check"
    /\ msg_args.type = "chat"
    /\ get_player_name(msg_args.id) \in {Some(n) : n \in Names}
    /\ get_player_name(MaxId + 1) = None

\* a `game' line with width and height of at least 1 has started an epoch, and
\* the client has not died since (a `pos' outside the grid kills it)
InEpochAlive == VecLen(world) >= 1 /\ VecLen(world[0]) >= 1 /\ ~Terminated

\* C18: in an epoch with a grid of at least one cell, whose `pos' lines were
\* all inside the grid, no beam of a tick indexes the grid outside its bounds.
C18_TickNeverLeavesGrid ==
    InEpochAlive => \A dir \in Direction : beam(dir) # PANIC

\* 1 if the cell is unclaimed, else 0
Unclaimed(c) == IF Claimant(c) = None THEN 1 ELSE 0

\* C19: on a square grid of extent E >= 2 with self position inside, the two
\* beams along an axis differ by the cell at offset +1 being unclaimed minus
\* the cell at offset -1 being unclaimed, and the positive beam is the greater
\* one exactly when the cell ahead is unclaimed and the cell behind is claimed.
C19_OpposedBeamsDifferByNeighbours ==
    \A E \in 2..(MaxDim + MaxExtent) :
        (SquareGrid(E) /\ PosInGrid) =>
            /\ beam("WPos") - beam("WNeg") =
                   Unclaimed(RayCell("WPos", E, 1)) - Unclaimed(RayCell("WNeg", E, 1))
            /\ beam("HPos") - beam("HNeg") =
                   Unclaimed(RayCell("HPos", E, 1)) - Unclaimed(RayCell("HNeg", E, 1))
            /\ beam("WPos") > beam("WNeg") <=>
                   /\ Unclaimed(RayCell("WPos", E, 1)) = 1
                   /\ Unclaimed(RayCell("WNeg", E, 1)) = 0
            /\ beam("HPos") > beam("HNeg") <=>
                   /\ Unclaimed(RayCell("HPos", E, 1)) = 1
                   /\ Unclaimed(RayCell("HNeg", E, 1)) = 0

\* C19 witness: a tick was answered on a grid of extent 3 or more where the
\* cell ahead along the width is unclaimed, the cell behind is claimed, and
\* the beam ahead is the longer one
C19_Witness ==
    /\ TickAnswered
    /\ \E E \in 3..(MaxDim + MaxExtent) :
           /\ SquareGrid(E)
           /\ Unclaimed(RayCell("WPos", E, 1)) = 1
           /\ Unclaimed(RayCell("WNeg", E, 1)) = 0
    /\ PosInGrid
    /\ beam("WPos") > beam("WNeg")

====
